---------------------------- MODULE Spec2Model ----------------------------
(***************************************************************************)
(* Process orchestration of create-minecraft-server.py: run_server, the   *)
(* two tunnel variants (NgrokTunnel, PlayitGGTunnel), their background    *)
(* observer threads and the top-level KeyboardInterrupt handler.          *)
(***************************************************************************)
EXTENDS Integers, Sequences, FiniteSets, TLC

VARIABLES
    pc,               \* position of the main thread inside run_server / __main__
    tunnel_service,   \* value returned by select_tunnel_service()
    auth_token,       \* NgrokTunnel.auth_token (TRUE: non-empty, FALSE: empty/None)
    tunnel_process,   \* local of run_server: "None" or the handle "tunnel"
    proc,             \* operating-system state of the two child processes
    exit_status,      \* return code of the server process once it exited
    terminateCalls,   \* number of .terminate() calls made on each handle
    threadsStarted,   \* number of observer threads started for each process
    thread,           \* state of the three observer threads
    events,           \* lifecycle events of run_server, in program order
    waitOutcome,      \* how server_process.wait() completed
    raised,           \* exception propagating out of run_server
    stoppingLogged,   \* number of "Stopping server..." notices
    tunnelStoppedLogged, \* number of "Tunnel service stopped" notices
    farewellLogged,   \* number of "Thanks for using" notices of __main__
    readyNotices,     \* number of "Server ... is ready!" notices
    published,        \* addresses logged as "Server accessible at: ..."
    srvOut,           \* lines written by the server and not yet read
    srvEmitted,       \* number of lines the server wrote so far
    tunOut,           \* lines written by playit and not yet read
    tunEmitted,       \* number of lines playit wrote so far
    polls,            \* number of failed status polls of get_public_url
    total_memory,     \* psutil.virtual_memory().total // 1024**3
    allocated_memory, \* int(total_memory * 0.8); -1 before it is computed
    java_xms,         \* the -Xms flag in GB; 0 before the flags are built
    java_xmx          \* the -Xmx flag in GB; -1 before the flags are built

vars == << pc, tunnel_service, auth_token, tunnel_process, proc, exit_status,
           terminateCalls, threadsStarted, thread, events, waitOutcome, raised,
           stoppingLogged, tunnelStoppedLogged, farewellLogged, readyNotices,
           published, srvOut, srvEmitted, tunOut, tunEmitted,
           polls, total_memory, allocated_memory, java_xms, java_xmx >>

-----------------------------------------------------------------------------
(* Bounds of the model *)

MaxServerLines == 2
MaxTunnelLines == 2
MaxPolls == 2
MaxMemGB == 64

-----------------------------------------------------------------------------
(* Strings are sequences of one-character strings *)

RECURSIVE RemoveAll(_, _)
\* str.replace(old, ''): every occurrence of old removed, left to right
RemoveAll(s, old) ==
    IF Len(s) < Len(old) THEN s
    ELSE IF SubSeq(s, 1, Len(old)) = old
         THEN RemoveAll(SubSeq(s, Len(old) + 1, Len(s)), old)
         ELSE << Head(s) >> \o RemoveAll(Tail(s), old)

\* Python's  sub in s
Contains(s, sub) ==
    \E i \in 0 .. (Len(s) - Len(sub)) : SubSeq(s, i + 1, i + Len(sub)) = sub

\* str.lower() on the letters that occur in the modelled lines
LowerChar(c) ==
    CASE c = "A" -> "a"
      [] c = "C" -> "c"
      [] c = "D" -> "d"
      [] c = "R" -> "r"
      [] c = "T" -> "t"
      [] OTHER -> c

Lower(s) == [i \in 1 .. Len(s) |-> LowerChar(s[i])]

IsSpace(c) == c \in {" ", "\n", "\t"}

RECURSIVE LastToken(_)
\* line.strip().split()[-1]: the last maximal run of non-whitespace characters
LastToken(s) ==
    IF s = << >> THEN << >>
    ELSE IF IsSpace(s[Len(s)]) THEN LastToken(SubSeq(s, 1, Len(s) - 1))
    ELSE LET starts == {i \in 1 .. Len(s) :
                           \A j \in i .. Len(s) : ~IsSpace(s[j])}
             first == CHOOSE i \in starts : \A k \in starts : i <= k
         IN  SubSeq(s, first, Len(s))

ReadyMarker == << "D", "o", "n", "e", " ", "(" >>
AgentMarker == << "a", "g", "e", "n", "t", " ", "c", "o", "n", "n", "e", "c", "t", "e", "d" >>
TunnelMarker == << "t", "u", "n", "n", "e", "l", " ", "r", "e", "a", "d", "y" >>
TcpScheme == << "t", "c", "p", ":", "/", "/" >>

\* Lines the server process may write (each ends with a newline)
ServerLines ==
    { << "[", "i", "]", " ", "D", "o", "n", "e", " ", "(", "9", "s", ")", "\n" >>,
      << "d", "o", "n", "e", " ", "(", "1", "s", ")", "\n" >> }

\* Lines the playit process may write
TunnelLines ==
    { << "A", "g", "e", "n", "t", " ", "C", "o", "n", "n", "e", "c", "t", "e", "d", "\n" >>,
      << "T", "u", "n", "n", "e", "l", " ", "R", "e", "a", "d", "y", " ", " ", "b", ":", "2", " ", "\n" >>,
      << "a", "g", "e", "n", "t", " ", "c", "o", "n", "n", "e", "c", "t", "e", "d", ",", " ",
         "t", "u", "n", "n", "e", "l", " ", "r", "e", "a", "d", "y", " ", "c", ":", "3", "\n" >> }

\* Outcomes of requests.get(...).json() in get_public_url: the request
\* raises, the JSON has no tunnel entry, or the first entry's public_url
ConnError == "ConnectionError"
NoTunnels == "IndexError"
StatusErrors == {ConnError, NoTunnels}
StatusUrls == { << "t", "c", "p", ":", "/", "/", "h", ":", "5" >> }

-----------------------------------------------------------------------------
(* int(total_memory * 0.8) in IEEE-754 double arithmetic.  A double is     *)
(* held as three limbs << n2, n1, n0 >> in base LimbBase, in units of      *)
(* 2^-53, so the integer part of the value is n2 \div IntScale.            *)

LimbBase == 262144
IntScale == 131072
\* the double nearest to 0.8 is 7205759403792794 * 2^-53
Factor08 == << 104857, 157286, 104858 >>

RECURSIVE Pow2(_)
Pow2(k) == IF k = 0 THEN 1 ELSE 2 * Pow2(k - 1)

RECURSIVE BitLength(_)
BitLength(n) == IF n = 0 THEN 0 ELSE 1 + BitLength(n \div 2)

\* the exact product  t * f  of an integer and a double
ExactProduct(t, f) ==
    LET p0 == t * f[3]
        p1 == t * f[2] + (p0 \div LimbBase)
        p2 == t * f[1] + (p1 \div LimbBase)
    IN  << p2, p1 % LimbBase, p0 % LimbBase >>

\* round to nearest, ties to even, to the 53-bit significand of a double
RoundToDouble(n) ==
    LET ip  == n[1] \div IntScale
        ulp == IF ip = 0 THEN 1 ELSE Pow2(BitLength(ip))
        q   == n[3] \div ulp
        rem == n[3] % ulp
        up  == IF 2 * rem > ulp \/ (2 * rem = ulp /\ q % 2 = 1) THEN 1 ELSE 0
        r0  == (q + up) * ulp
        r1  == n[2] + (r0 \div LimbBase)
        r2  == n[1] + (r1 \div LimbBase)
    IN  << r2, r1 % LimbBase, r0 % LimbBase >>

\* round(x) in place of int(x): to the nearest integer
IntOfDouble_Round(n) ==
    (n[1] \div IntScale) + (IF 2 * (n[1] % IntScale) >= IntScale THEN 1 ELSE 0)

\* int(x) of a non-negative double: truncation
IntOfDouble(n) == n[1] \div IntScale

AllocatedMemory(t) == IntOfDouble(RoundToDouble(ExactProduct(t, Factor08)))

InitialHeapGB == 1

-----------------------------------------------------------------------------
(* State *)

Procs == {"tunnel", "server"}
Threads == {"url_thread", "tunnel_thread", "server_thread"}
\* total memory of the hosts the sessions run on, in whole GB
HostMemoryGB == {16}

InitRest ==
    /\ tunnel_service = "unset"
    /\ auth_token = FALSE
    /\ tunnel_process = "None"
    /\ proc = [p \in Procs |-> "none"]
    /\ exit_status = 0
    /\ terminateCalls = [p \in Procs |-> 0]
    /\ threadsStarted = [p \in Procs |-> 0]
    /\ thread = [t \in Threads |-> "none"]
    /\ events = << >>
    /\ waitOutcome = "none"
    /\ raised = "none"
    /\ stoppingLogged = 0
    /\ tunnelStoppedLogged = 0
    /\ farewellLogged = 0
    /\ readyNotices = 0
    /\ published = << >>
    /\ srvOut = << >>
    /\ srvEmitted = 0
    /\ tunOut = << >>
    /\ tunEmitted = 0
    /\ polls = 0
    /\ allocated_memory = -1
    /\ java_xms = 0
    /\ java_xmx = -1

Init ==
    /\ pc = "entry"
    /\ total_memory \in HostMemoryGB
    /\ InitRest

\* the start of the memory computation, for every reported total
MemInit ==
    /\ pc = "memory"
    /\ total_memory \in 0 .. MaxMemGB
    /\ InitRest

-----------------------------------------------------------------------------
(* Main thread: run_server *)

\* lines 323-336: a missing directory or an unreadable configuration returns
Entry ==
    /\ pc = "entry"
    /\ \E ok \in BOOLEAN :
          IF ok THEN pc' = "select" /\ events' = events
                ELSE pc' = "done" /\ events' = Append(events, "return")
    /\ UNCHANGED << tunnel_service, auth_token, tunnel_process, proc, exit_status,
                    terminateCalls, threadsStarted, thread, waitOutcome, raised,
                    stoppingLogged, tunnelStoppedLogged, farewellLogged,
                    readyNotices, published, srvOut, srvEmitted,
                    tunOut, tunEmitted, polls, total_memory, allocated_memory,
                    java_xms, java_xmx >>

\* NgrokTunnel.__init__: auth_token or os.getenv("NGROK_AUTH_TOKEN").  arg
\* is the constructor's default of line 39, a credential literal that an
\* installation replaces or blanks: TRUE when it is non-empty
NgrokInit(arg, env) == arg \/ env

\* select_tunnel_service: None when no provider is installed, else the
\* operator's choice among the installed ones, constructed
SelectTunnelService ==
    /\ pc = "select"
    /\ \E available \in SUBSET {"Ngrok", "Playit.gg"} :
          IF available = {}
          THEN tunnel_service' = "None" /\ auth_token' = auth_token
          ELSE \E answer \in available :
                  /\ tunnel_service' = answer
                  /\ IF answer = "Ngrok"
                     THEN \E arg \in BOOLEAN, env \in BOOLEAN :
                             auth_token' = NgrokInit(arg, env)
                     ELSE auth_token' = auth_token
    /\ pc' = "start_tunnel"
    /\ UNCHANGED << tunnel_process, proc, exit_status, terminateCalls,
                    threadsStarted, thread, events, waitOutcome, raised,
                    stoppingLogged, tunnelStoppedLogged, farewellLogged,
                    readyNotices, published, srvOut, srvEmitted,
                    tunOut, tunEmitted, polls, total_memory, allocated_memory,
                    java_xms, java_xmx >>

\* line 339 with no service selected: tunnel_process = None
StartTunnelNone ==
    /\ pc = "start_tunnel"
    /\ tunnel_service = "None"
    /\ tunnel_process' = "None"
    /\ pc' = "memory"
    /\ UNCHANGED << tunnel_service, auth_token, proc, exit_status, terminateCalls,
                    threadsStarted, thread, events, waitOutcome, raised,
                    stoppingLogged, tunnelStoppedLogged, farewellLogged,
                    readyNotices, published, srvOut, srvEmitted,
                    tunOut, tunEmitted, polls, total_memory, allocated_memory,
                    java_xms, java_xmx >>

\* NgrokTunnel.start_tunnel without a token: warning, return None
NgrokNoToken ==
    /\ pc = "start_tunnel"
    /\ tunnel_service = "Ngrok"
    /\ ~auth_token
    /\ tunnel_process' = "None"
    /\ pc' = "memory"
    /\ UNCHANGED << tunnel_service, auth_token, proc, exit_status, terminateCalls,
                    threadsStarted, thread, events, waitOutcome, raised,
                    stoppingLogged, tunnelStoppedLogged, farewellLogged,
                    readyNotices, published, srvOut, srvEmitted,
                    tunOut, tunEmitted, polls, total_memory, allocated_memory,
                    java_xms, java_xmx >>

\* NgrokTunnel.start_tunnel with a token: configure it, Popen ngrok tcp
NgrokSpawn ==
    /\ pc = "start_tunnel"
    /\ tunnel_service = "Ngrok"
    /\ auth_token
    /\ proc' = [proc EXCEPT !["tunnel"] = "running"]
    /\ events' = Append(events, "tunnel_spawn")
    /\ pc' = "start_url_thread"
    /\ UNCHANGED << tunnel_service, auth_token, tunnel_process, exit_status,
                    terminateCalls, threadsStarted, thread, waitOutcome, raised,
                    stoppingLogged, tunnelStoppedLogged, farewellLogged,
                    readyNotices, published, srvOut, srvEmitted,
                    tunOut, tunEmitted, polls, total_memory, allocated_memory,
                    java_xms, java_xmx >>

\* the daemon thread of get_public_url is started and the handle returned
NgrokStartThread ==
    /\ pc = "start_url_thread"
    /\ thread' = [thread EXCEPT !["url_thread"] = "running"]
    /\ threadsStarted' = [threadsStarted EXCEPT !["tunnel"] = @ + 1]
    /\ tunnel_process' = "tunnel"
    /\ pc' = "memory"
    /\ UNCHANGED << tunnel_service, auth_token, proc, exit_status, terminateCalls,
                    events, waitOutcome, raised, stoppingLogged,
                    tunnelStoppedLogged, farewellLogged, readyNotices, published, srvOut, srvEmitted, tunOut, tunEmitted, polls,
                    total_memory, allocated_memory, java_xms, java_xmx >>

\* PlayitGGTunnel.start_tunnel: Popen playit run
PlayitSpawn ==
    /\ pc = "start_tunnel"
    /\ tunnel_service = "Playit.gg"
    /\ proc' = [proc EXCEPT !["tunnel"] = "running"]
    /\ events' = Append(events, "tunnel_spawn")
    /\ pc' = "start_tunnel_thread"
    /\ UNCHANGED << tunnel_service, auth_token, tunnel_process, exit_status,
                    terminateCalls, threadsStarted, thread, waitOutcome, raised,
                    stoppingLogged, tunnelStoppedLogged, farewellLogged,
                    readyNotices, published, srvOut, srvEmitted,
                    tunOut, tunEmitted, polls, total_memory, allocated_memory,
                    java_xms, java_xmx >>

\* the daemon thread of read_output is started and the handle returned
PlayitStartThread ==
    /\ pc = "start_tunnel_thread"
    /\ thread' = [thread EXCEPT !["tunnel_thread"] = "running"]
    /\ threadsStarted' = [threadsStarted EXCEPT !["tunnel"] = @ + 1]
    /\ tunnel_process' = "tunnel"
    /\ pc' = "memory"
    /\ UNCHANGED << tunnel_service, auth_token, proc, exit_status, terminateCalls,
                    events, waitOutcome, raised, stoppingLogged,
                    tunnelStoppedLogged, farewellLogged, readyNotices, published, srvOut, srvEmitted, tunOut, tunEmitted, polls,
                    total_memory, allocated_memory, java_xms, java_xmx >>

\* lines 342-368: the memory ceiling and the java flags
ComputeMemory ==
    /\ pc = "memory"
    /\ allocated_memory' = AllocatedMemory(total_memory)
    /\ java_xms' = InitialHeapGB
    /\ java_xmx' = allocated_memory'
    /\ pc' = "spawn_server"
    /\ UNCHANGED << tunnel_service, auth_token, tunnel_process, proc, exit_status,
                    terminateCalls, threadsStarted, thread, events, waitOutcome,
                    raised, stoppingLogged, tunnelStoppedLogged, farewellLogged,
                    readyNotices, published, srvOut, srvEmitted,
                    tunOut, tunEmitted, polls, total_memory >>

\* a launch that first waits until the tunnel address is known
SpawnServer_WaitsForAddress ==
    /\ pc = "spawn_server"
    /\ (tunnel_process = "tunnel") => published # << >>
    /\ proc' = [proc EXCEPT !["server"] = "running"]
    /\ events' = Append(events, "server_spawn")
    /\ pc' = "start_monitor"
    /\ UNCHANGED << tunnel_service, auth_token, tunnel_process, exit_status,
                    terminateCalls, threadsStarted, thread, waitOutcome, raised,
                    stoppingLogged, tunnelStoppedLogged, farewellLogged,
                    readyNotices, published, srvOut, srvEmitted,
                    tunOut, tunEmitted, polls, total_memory, allocated_memory,
                    java_xms, java_xmx >>

\* lines 371-376: Popen of the java command succeeds
SpawnServer ==
    /\ pc = "spawn_server"
    /\ proc' = [proc EXCEPT !["server"] = "running"]
    /\ events' = Append(events, "server_spawn")
    /\ pc' = "start_monitor"
    /\ UNCHANGED << tunnel_service, auth_token, tunnel_process, exit_status,
                    terminateCalls, threadsStarted, thread, waitOutcome, raised,
                    stoppingLogged, tunnelStoppedLogged, farewellLogged,
                    readyNotices, published, srvOut, srvEmitted,
                    tunOut, tunEmitted, polls, total_memory, allocated_memory,
                    java_xms, java_xmx >>

\* lines 371-376: Popen raises (no java executable); nothing catches it
SpawnServerFails ==
    /\ pc = "spawn_server"
    /\ raised' = "OSError"
    /\ events' = Append(events, "raise")
    /\ pc' = "aborted"
    /\ UNCHANGED << tunnel_service, auth_token, tunnel_process, proc, exit_status,
                    terminateCalls, threadsStarted, thread, waitOutcome,
                    stoppingLogged, tunnelStoppedLogged, farewellLogged,
                    readyNotices, published, srvOut, srvEmitted,
                    tunOut, tunEmitted, polls, total_memory, allocated_memory,
                    java_xms, java_xmx >>

\* lines 384-386: the daemon thread of monitor_server is started
StartMonitor ==
    /\ pc = "start_monitor"
    /\ thread' = [thread EXCEPT !["server_thread"] = "running"]
    /\ threadsStarted' = [threadsStarted EXCEPT !["server"] = @ + 1]
    /\ pc' = "try"
    /\ UNCHANGED << tunnel_service, auth_token, tunnel_process, proc, exit_status,
                    terminateCalls, events, waitOutcome, raised, stoppingLogged,
                    tunnelStoppedLogged, farewellLogged, readyNotices, published, srvOut, srvEmitted, tunOut, tunEmitted, polls,
                    total_memory, allocated_memory, java_xms, java_xmx >>

\* lines 388-389: the try block is entered and wait() is called
BeginWait ==
    /\ pc = "try"
    /\ events' = Append(events, "wait")
    /\ pc' = "wait"
    /\ UNCHANGED << tunnel_service, auth_token, tunnel_process, proc, exit_status,
                    terminateCalls, threadsStarted, thread, waitOutcome, raised,
                    stoppingLogged, tunnelStoppedLogged, farewellLogged,
                    readyNotices, published, srvOut, srvEmitted,
                    tunOut, tunEmitted, polls, total_memory, allocated_memory,
                    java_xms, java_xmx >>

\* line 393: if tunnel_process
ShouldTerminate_Always(tp) == TRUE
ShouldTerminate(tp) == tp # "None"

\* Popen.terminate(): a signal for a live process, nothing for one that ended
Terminate(st) == IF st = "running" THEN "terminated" ELSE st

\* lines 392-395, followed by the return or the propagation
Finally(last) ==
    IF ShouldTerminate(tunnel_process)
    THEN /\ terminateCalls' = [terminateCalls EXCEPT !["tunnel"] = @ + 1]
         /\ proc' = [proc EXCEPT !["tunnel"] = Terminate(@)]
         /\ tunnelStoppedLogged' = tunnelStoppedLogged + 1
         /\ events' = events \o << "terminate", last >>
    ELSE /\ events' = Append(events, last)
         /\ UNCHANGED << terminateCalls, proc, tunnelStoppedLogged >>

\* wait() returns the exit status of the server; finally; return
WaitReturns_Joins ==
    /\ pc = "wait"
    /\ proc["server"] = "exited"
    /\ \A t \in Threads : thread[t] # "running"
    /\ waitOutcome' = IF exit_status = 0 THEN "exit_zero" ELSE "exit_nonzero"
    /\ Finally("return")
    /\ pc' = "done"
    /\ UNCHANGED << tunnel_service, auth_token, tunnel_process, exit_status,
                    threadsStarted, thread, raised, stoppingLogged, farewellLogged,
                    readyNotices, published, srvOut, srvEmitted,
                    tunOut, tunEmitted, polls, total_memory, allocated_memory,
                    java_xms, java_xmx >>

WaitReturns ==
    /\ pc = "wait"
    /\ proc["server"] = "exited"
    /\ waitOutcome' = IF exit_status = 0 THEN "exit_zero" ELSE "exit_nonzero"
    /\ Finally("return")
    /\ pc' = "done"
    /\ UNCHANGED << tunnel_service, auth_token, tunnel_process, exit_status,
                    threadsStarted, thread, raised, stoppingLogged, farewellLogged,
                    readyNotices, published, srvOut, srvEmitted,
                    tunOut, tunEmitted, polls, total_memory, allocated_memory,
                    java_xms, java_xmx >>

\* a handler that logs and lets the interrupt go on to the caller
WaitInterrupted_Reraise ==
    /\ pc = "wait"
    /\ waitOutcome' = "interrupt"
    /\ stoppingLogged' = stoppingLogged + 1
    /\ Finally("raise")
    /\ raised' = "KeyboardInterrupt"
    /\ pc' = "aborted"
    /\ UNCHANGED << tunnel_service, auth_token, tunnel_process, exit_status,
                    threadsStarted, thread, farewellLogged, readyNotices,
                    published, srvOut, srvEmitted, tunOut,
                    tunEmitted, polls, total_memory, allocated_memory, java_xms,
                    java_xmx >>

\* a handler outside any finally: the interrupt returns without teardown
WaitInterrupted_NoFinally ==
    /\ pc = "wait"
    /\ waitOutcome' = "interrupt"
    /\ stoppingLogged' = stoppingLogged + 1
    /\ events' = Append(events, "return")
    /\ pc' = "done"
    /\ UNCHANGED << tunnel_service, auth_token, tunnel_process, proc, exit_status,
                    terminateCalls, threadsStarted, thread, raised,
                    tunnelStoppedLogged, farewellLogged, readyNotices, published, srvOut, srvEmitted, tunOut, tunEmitted, polls,
                    total_memory, allocated_memory, java_xms, java_xmx >>

\* lines 390-395: KeyboardInterrupt during wait(): notice; finally; return
WaitInterrupted ==
    /\ pc = "wait"
    /\ waitOutcome' = "interrupt"
    /\ stoppingLogged' = stoppingLogged + 1
    /\ Finally("return")
    /\ pc' = "done"
    /\ UNCHANGED << tunnel_service, auth_token, tunnel_process, exit_status,
                    threadsStarted, thread, raised, farewellLogged, readyNotices,
                    published, srvOut, srvEmitted, tunOut,
                    tunEmitted, polls, total_memory, allocated_memory, java_xms,
                    java_xmx >>

\* any other exception of wait(): finally; the exception propagates
WaitRaises ==
    /\ pc = "wait"
    /\ waitOutcome' = "error"
    /\ Finally("raise")
    /\ raised' = "Exception"
    /\ pc' = "aborted"
    /\ UNCHANGED << tunnel_service, auth_token, tunnel_process, exit_status,
                    threadsStarted, thread, stoppingLogged, farewellLogged,
                    readyNotices, published, srvOut, srvEmitted,
                    tunOut, tunEmitted, polls, total_memory, allocated_memory,
                    java_xms, java_xmx >>

\* positions of run_server outside the try statement
OutsideTry == {"entry", "select", "start_tunnel", "start_url_thread",
               "start_tunnel_thread", "memory", "spawn_server", "start_monitor",
               "try"}

\* KeyboardInterrupt outside the try statement: it propagates at once
Interrupt ==
    /\ pc \in OutsideTry
    /\ raised' = "KeyboardInterrupt"
    /\ events' = Append(events, "raise")
    /\ pc' = "aborted"
    /\ UNCHANGED << tunnel_service, auth_token, tunnel_process, proc, exit_status,
                    terminateCalls, threadsStarted, thread, waitOutcome,
                    stoppingLogged, tunnelStoppedLogged, farewellLogged,
                    readyNotices, published, srvOut, srvEmitted,
                    tunOut, tunEmitted, polls, total_memory, allocated_memory,
                    java_xms, java_xmx >>

\* lines 426-430: __main__ catches KeyboardInterrupt; the interpreter exits
\* and its daemon threads end with it
MainExit ==
    /\ pc \in {"done", "aborted"}
    /\ farewellLogged' = IF raised = "KeyboardInterrupt"
                         THEN farewellLogged + 1 ELSE farewellLogged
    /\ thread' = [t \in Threads |->
                     IF thread[t] = "running" THEN "killed" ELSE thread[t]]
    /\ pc' = "exit"
    /\ UNCHANGED << tunnel_service, auth_token, tunnel_process, proc, exit_status,
                    terminateCalls, threadsStarted, events, waitOutcome, raised,
                    stoppingLogged, tunnelStoppedLogged, readyNotices, published, srvOut, srvEmitted, tunOut, tunEmitted, polls,
                    total_memory, allocated_memory, java_xms, java_xmx >>

-----------------------------------------------------------------------------
(* Child processes and observer threads *)

AllButStreams == << pc, tunnel_service, auth_token, tunnel_process, exit_status,
                    terminateCalls, threadsStarted, events, waitOutcome, raised,
                    stoppingLogged, tunnelStoppedLogged, farewellLogged,
                    total_memory, allocated_memory, java_xms, java_xmx >>

\* the server process writes a line to its merged output
ServerEmit ==
    /\ proc["server"] = "running"
    /\ srvEmitted < MaxServerLines
    /\ \E line \in ServerLines : srvOut' = Append(srvOut, line)
    /\ srvEmitted' = srvEmitted + 1
    /\ UNCHANGED << AllButStreams, proc, thread, readyNotices, published, tunOut, tunEmitted, polls >>

\* the server process ends by itself with some exit status
ServerExits ==
    /\ proc["server"] = "running"
    /\ \E status \in {0, 1} : exit_status' = status
    /\ proc' = [proc EXCEPT !["server"] = "exited"]
    /\ UNCHANGED << pc, tunnel_service, auth_token, tunnel_process,
                    terminateCalls, threadsStarted, thread, events, waitOutcome,
                    raised, stoppingLogged, tunnelStoppedLogged, farewellLogged,
                    readyNotices, published, srvOut, srvEmitted,
                    tunOut, tunEmitted, polls, total_memory, allocated_memory,
                    java_xms, java_xmx >>

\* lines 381-382: the notice is logged for a line that contains "Done ("
NoticesAfter(n, line) ==
    IF Contains(line, ReadyMarker) THEN n + 1 ELSE n

\* monitor_server: one iteration of the loop over server_process.stdout
MonitorRead ==
    /\ thread["server_thread"] = "running"
    /\ srvOut # << >>
    /\ readyNotices' = NoticesAfter(readyNotices, Head(srvOut))
    /\ srvOut' = Tail(srvOut)
    /\ UNCHANGED << AllButStreams, proc, thread, published,
                    srvEmitted, tunOut, tunEmitted, polls >>

\* monitor_server: the stream is closed and drained, the loop ends
MonitorEOF ==
    /\ thread["server_thread"] = "running"
    /\ srvOut = << >>
    /\ proc["server"] = "exited"
    /\ thread' = [thread EXCEPT !["server_thread"] = "done"]
    /\ UNCHANGED << AllButStreams, proc, readyNotices, published,
                    srvOut, srvEmitted, tunOut, tunEmitted, polls >>

\* the playit process writes a line to its output
TunnelEmit ==
    /\ tunnel_service = "Playit.gg"
    /\ proc["tunnel"] = "running"
    /\ tunEmitted < MaxTunnelLines
    /\ \E line \in TunnelLines : tunOut' = Append(tunOut, line)
    /\ tunEmitted' = tunEmitted + 1
    /\ UNCHANGED << AllButStreams, proc, thread, readyNotices, published, srvOut, srvEmitted, polls >>

\* the tunnel process ends by itself
TunnelExits ==
    /\ proc["tunnel"] = "running"
    /\ proc' = [proc EXCEPT !["tunnel"] = "exited"]
    /\ UNCHANGED << AllButStreams, thread, readyNotices, published,
                    srvOut, srvEmitted, tunOut, tunEmitted, polls >>

\* lines 90-94: the elif branch logs the last token of a "tunnel ready" line
PublishedAfter(pub, line) ==
    IF Contains(Lower(line), AgentMarker) THEN pub
    ELSE IF Contains(Lower(line), TunnelMarker)
         THEN Append(pub, LastToken(line))
         ELSE pub

\* read_output: one iteration of the loop over tunnel_process.stdout
ReadOutput ==
    /\ thread["tunnel_thread"] = "running"
    /\ tunOut # << >>
    /\ published' = PublishedAfter(published, Head(tunOut))
    /\ tunOut' = Tail(tunOut)
    /\ UNCHANGED << AllButStreams, proc, thread, readyNotices, srvOut,
                    srvEmitted, tunEmitted, polls >>

\* read_output: the stream is closed and drained, the loop ends
ReadOutputEOF ==
    /\ thread["tunnel_thread"] = "running"
    /\ tunOut = << >>
    /\ proc["tunnel"] \in {"exited", "terminated"}
    /\ thread' = [thread EXCEPT !["tunnel_thread"] = "done"]
    /\ UNCHANGED << AllButStreams, proc, readyNotices, published,
                    srvOut, srvEmitted, tunOut, tunEmitted, polls >>

\* get_public_url: the request or the lookup raises; sleep(1) and retry
PollFails ==
    /\ thread["url_thread"] = "running"
    /\ polls < MaxPolls
    /\ \E err \in StatusErrors : polls' = polls + 1
    /\ UNCHANGED << AllButStreams, proc, thread, readyNotices, published, srvOut, srvEmitted, tunOut, tunEmitted >>

\* get_public_url: the status endpoint of the running ngrok answers with a
\* tunnel entry; its address is logged with the scheme removed, then break
PollSucceeds ==
    /\ thread["url_thread"] = "running"
    /\ proc["tunnel"] = "running"
    /\ \E url \in StatusUrls :
          published' = Append(published, RemoveAll(url, TcpScheme))
    /\ thread' = [thread EXCEPT !["url_thread"] = "done"]
    /\ UNCHANGED << AllButStreams, proc, readyNotices, srvOut,
                    srvEmitted, tunOut, tunEmitted, polls >>

-----------------------------------------------------------------------------
(* Specifications *)

MainStep ==
    \/ Entry
    \/ SelectTunnelService
    \/ StartTunnelNone
    \/ NgrokNoToken
    \/ NgrokSpawn
    \/ NgrokStartThread
    \/ PlayitSpawn
    \/ PlayitStartThread
    \/ ComputeMemory
    \/ SpawnServer
    \/ SpawnServerFails
    \/ StartMonitor
    \/ BeginWait
    \/ WaitReturns
    \/ WaitInterrupted
    \/ WaitRaises
    \/ Interrupt
    \/ MainExit

Next ==
    \/ MainStep
    \/ ServerEmit
    \/ ServerExits
    \/ MonitorRead
    \/ MonitorEOF
    \/ TunnelEmit
    \/ TunnelExits
    \/ ReadOutput
    \/ ReadOutputEOF
    \/ PollFails
    \/ PollSucceeds

Spec == Init /\ [][Next]_vars

\* the main thread is scheduled: a wait() whose process has ended returns
LiveSpec == Init /\ [][Next]_vars /\ WF_vars(WaitReturns)

MemNext == ComputeMemory

MemSpec == MemInit /\ [][MemNext]_vars

-----------------------------------------------------------------------------
(* Properties *)

\* run_server has returned or has let an exception propagate
Ended == pc \in {"done", "aborted", "exit"}

Count(e) == Cardinality({i \in 1 .. Len(events) : events[i] = e})

Pos(e) == CHOOSE i \in 1 .. Len(events) : events[i] = e

Rank(e) ==
    CASE e = "tunnel_spawn" -> 1
      [] e = "server_spawn" -> 2
      [] e = "wait" -> 3
      [] e = "terminate" -> 4
      [] OTHER -> 5

\* C1: once a tunnel was started and the server launched, however wait()
\* completes (exit status zero, non-zero, interrupt, other exception),
\* terminate() is called on the tunnel exactly once, after the wait and
\* before run_server returns or propagates; before that it is not called.
C1_TerminateOnceHoweverWaitCompletes ==
    /\ (waitOutcome = "none") => terminateCalls["tunnel"] = 0
    /\ (waitOutcome # "none" /\ tunnel_process = "tunnel") =>
          /\ Ended
          /\ terminateCalls["tunnel"] = 1
          /\ Count("terminate") = 1
          /\ Pos("wait") < Pos("terminate")
          /\ Pos("terminate") = Len(events) - 1
          /\ events[Len(events)] \in {"return", "raise"}
          /\ proc["tunnel"] # "running"

C1_Witness ==
    /\ waitOutcome = "exit_nonzero"
    /\ tunnel_process = "tunnel"
    /\ proc["tunnel"] = "terminated"
    /\ terminateCalls["tunnel"] = 1

\* C2: whenever the session has ended (return or exception, a failed server
\* launch and an interrupt outside the wait included) no tunnel process the
\* session started is still running un-terminated.
C2_TunnelNeverOutlivesSession ==
    Ended => proc["tunnel"] # "running"

\* C3: an interrupt during wait() is a normal shutdown: the "Stopping
\* server" notice is logged once, the teardown runs, run_server returns and
\* the interrupt does not reach the handler of __main__.
C3_InterruptIsNormalShutdown ==
    (waitOutcome = "interrupt") =>
        /\ stoppingLogged = 1
        /\ pc \in {"done", "exit"}
        /\ raised = "none"
        /\ farewellLogged = 0
        /\ events[Len(events)] = "return"
        /\ (tunnel_process = "tunnel" =>
               terminateCalls["tunnel"] = 1 /\ tunnelStoppedLogged = 1)

C3_Witness ==
    /\ waitOutcome = "interrupt"
    /\ pc = "exit"
    /\ tunnel_process = "tunnel"
    /\ proc["server"] = "running"

\* start_tunnel was not called on a provider that spawned a process
NoTunnel ==
    /\ pc \notin {"entry", "select", "start_tunnel"}
    /\ \/ tunnel_service = "None"
       \/ tunnel_service = "Ngrok" /\ ~auth_token

\* C4: with no provider installed, or with Ngrok and no token, no tunnel
\* process is spawned and nothing is raised for it; run_server goes on to
\* launch the server, waits for it and returns, and terminate() is never
\* called for the tunnel handle that does not exist.
C4_TunnelAbsenceNotFatal ==
    NoTunnel =>
        /\ tunnel_process = "None"
        /\ proc["tunnel"] = "none"
        /\ threadsStarted["tunnel"] = 0
        /\ terminateCalls["tunnel"] = 0
        /\ tunnelStoppedLogged = 0
        /\ Count("terminate") = 0
        /\ raised \in {"none", "KeyboardInterrupt", "OSError", "Exception"}
        /\ (raised = "OSError") => pc \in {"aborted", "exit"} /\ Count("server_spawn") = 0
        /\ (raised = "Exception") => waitOutcome = "error"
        /\ (pc = "memory") => ENABLED ComputeMemory
        /\ (pc = "spawn_server") => ENABLED SpawnServer
        /\ (pc \in {"done", "exit"} /\ raised = "none") =>
               events = << "server_spawn", "wait", "return" >>

C4_Witness ==
    /\ tunnel_service = "Ngrok"
    /\ ~auth_token
    /\ pc = "done"
    /\ waitOutcome = "exit_zero"
    /\ events = << "server_spawn", "wait", "return" >>

\* C5: the lifecycle events of a run occur in the order tunnel spawn, server
\* spawn, wait, terminate, end; and once the tunnel process is spawned each
\* step up to the server spawn is enabled whatever the address discovery
\* has done (thread not started, polling, reading, address logged or not).
C5_LifecycleOrder ==
    /\ \A i, j \in 1 .. Len(events) : i < j => Rank(events[i]) < Rank(events[j])
    /\ (pc = "start_url_thread") => ENABLED NgrokStartThread
    /\ (pc = "start_tunnel_thread") => ENABLED PlayitStartThread
    /\ (pc = "memory") => ENABLED ComputeMemory
    /\ (pc = "spawn_server") => ENABLED SpawnServer
    /\ (pc \in {"done", "exit"} /\ raised = "none" /\ tunnel_process = "tunnel") =>
           events = << "tunnel_spawn", "server_spawn", "wait", "terminate", "return" >>

C5_Witness ==
    /\ pc = "start_monitor"
    /\ events = << "tunnel_spawn", "server_spawn" >>
    /\ thread["url_thread"] = "running"
    /\ published = << >>
    /\ polls = MaxPolls

\* C6: when run_server has returned, every process it spawned has exited
\* (and, for the server, been awaited) or has been sent a termination
\* request, also when the wait was cut short by an interrupt.
C6_EveryHandleTerminatedOrAwaited ==
    (pc \in {"done", "exit"} /\ raised = "none") =>
        \A p \in Procs :
            \/ proc[p] \in {"none", "exited", "terminated"}
            \/ terminateCalls[p] >= 1

\* C7: the readiness notice is given at most once per server process,
\* whatever lines monitor_server consumes.
C7_ReadyAtMostOnce ==
    readyNotices <= 1

\* C8: the public address is published at most once per tunnel run, by the
\* Ngrok poller and by the PlayitGG reader, for any sequence of lines.
C8_AddressPublishedAtMostOnce ==
    Len(published) <= 1

\* C9: the -Xmx flag is floor(4 * T / 5) for every total T in whole GB
\* (16 gives 12, 10 gives 8) and the -Xms flag is 1.
C9_MemoryCeiling ==
    (pc # "memory") =>
        /\ allocated_memory = (4 * total_memory) \div 5
        /\ java_xmx = (4 * total_memory) \div 5
        /\ java_xms = 1
        /\ (total_memory = 16) => java_xmx = 12
        /\ (total_memory = 10) => java_xmx = 8

C9_Witness ==
    /\ total_memory = 10
    /\ java_xmx = 8
    /\ java_xms = 1
    /\ pc = "spawn_server"

\* each spawned process has had at most one observer thread started, and
\* exactly one once the main thread is past the start of that thread
OneObserverPerProcess ==
    /\ \A p \in Procs : threadsStarted[p] <= 1
    /\ (tunnel_process = "tunnel") => threadsStarted["tunnel"] = 1
    /\ (pc \in {"try", "wait"} \/ waitOutcome # "none") => threadsStarted["server"] = 1
    /\ \A p \in Procs : (proc[p] = "none") => threadsStarted[p] = 0

\* C10: every spawned process gets exactly one observer thread, and the main
\* thread never waits for one: once the server process has exited while
\* run_server is in wait(), run_server ends with the tunnel terminated, and
\* it returns unless wait() itself raised, whatever the observers do (the
\* poller never succeeding, the streams never drained or closed).
C10_ObserversNeverGate ==
    /\ []OneObserverPerProcess
    /\ (pc = "wait" /\ proc["server"] = "exited") ~>
           (/\ Ended
            /\ tunnel_process = "tunnel" => terminateCalls["tunnel"] = 1
            /\ waitOutcome # "error" => raised = "none")

C10_Witness ==
    /\ pc = "done"
    /\ waitOutcome \in {"exit_zero", "exit_nonzero"}
    /\ thread["url_thread"] = "running"
    /\ published = << >>
    /\ thread["server_thread"] = "running"
    /\ srvOut # << >>
    /\ terminateCalls["tunnel"] = 1

=============================================================================
